---- MODULE Spec2Model ----
(***************************************************************************)
(* The upload queue engine of clipper-app (src/src/services/               *)
(* uploadService.ts) as a state machine.                                   *)
(*                                                                         *)
(* JavaScript runs one callback at a time, so the code between two awaits  *)
(* is one atomic step.  The steps kept apart are the awaits on the network *)
(* (health probe, NetInfo.fetch, the XMLHttpRequest) and the delayed       *)
(* resolution of the storage reads and writes issued by the constructor    *)
(* and by addToQueue.  Consecutive awaits on local storage and settings    *)
(* inside one handler are taken in one step, except the first await of the *)
(* xhr load handler on HTTP 403, where the handler waits for a queue write *)
(* that stored the item as failed.  AsyncStorage is modelled as            *)
(* linearizable at the call: setItem writes and getItem reads the blob     *)
(* when called; only the promise resolves later.                           *)
(*                                                                         *)
(* The program state is handled as one record s (Cur), and every method of *)
(* UploadService is an operator from records to records, so a handler that *)
(* calls other methods is the composition of their operators.  The field g *)
(* and the pass fields log, health, net are history (ghost) fields: the    *)
(* code never reads them.                                                  *)
(*                                                                         *)
(* SettingsService with ContactsService, and MessageService, are two       *)
(* further state machines on variables of their own (SettingsSpec,         *)
(* MessagesSpec); the upload engine takes what it reads from the settings  *)
(* as an input of the step that reads it.                                  *)
(***************************************************************************)
EXTENDS Integers, Sequences, FiniteSets, TLC

VARIABLES
    queue,            \* this.queue
    pqueue,           \* AsyncStorage blob '@upload_queue'
    history,          \* this.history
    phistory,         \* AsyncStorage blob '@upload_history'
    isProcessing,     \* this.isProcessing
    lastProcessTime,  \* this.lastProcessTime
    timers,           \* fire times of the pending setTimeout callbacks
    passes,           \* the processQueue invocations that are past the guard
    addsPending,      \* addToQueue calls waiting on their saveQueue
    loadQ,            \* loadQueue: the pending getItem and the blob it read
    loadH,            \* loadHistory: the pending getItem and the blob it read
    now,              \* Date.now()
    nextUid,          \* ghost: number of addToQueue calls made so far, plus one
    crashes,          \* ghost: number of process restarts so far
    g,                \* ghost: per item, what has happened to it
    isMonitoring,     \* this.isMonitoring
    listeners,        \* the callbacks registered with NetInfo.addEventListener
    addsRejected,     \* ghost: number of addToQueue promises that rejected
    settings,         \* SettingsService: this.settings
    psettings,        \* AsyncStorage blob '@app_settings'
    contacts,         \* ContactsService: this.contacts
    pcontacts,        \* AsyncStorage blob '@app_contacts'
    updateCalls,      \* ghost: number of updateSettings calls made so far
    lastUpdate,       \* ghost: how the latest updateSettings call ended
    messages,         \* MessageService: this.messages
    pmessages,        \* AsyncStorage blob '@received_messages'
    hasUnviewed       \* MessageService: this.hasUnviewed

vars == << queue, pqueue, history, phistory, isProcessing, lastProcessTime,
           timers, passes, addsPending, loadQ, loadH, now, nextUid, crashes,
           g, isMonitoring, listeners, addsRejected,
           settings, psettings, contacts, pcontacts, updateCalls, lastUpdate,
           messages, pmessages, hasUnviewed >>

\* The variables of the NetInfo subscription, and those the upload engine
\* never writes.
uploadVars == << queue, pqueue, history, phistory, isProcessing, lastProcessTime,
                 timers, passes, addsPending, loadQ, loadH, now, nextUid, crashes,
                 g >>
monitorVars == << isMonitoring, listeners >>
settingsVars == << settings, psettings, contacts, pcontacts, updateCalls, lastUpdate >>
messageVars == << messages, pmessages, hasUnviewed >>
serviceVars == << settingsVars, messageVars >>
otherVars == << addsRejected, serviceVars >>

(***************************************************************************)
(* Bounds of the model.                                                    *)
(***************************************************************************)
MaxItems == 2
MaxCrashes == 1
MaxTicks == 1
TickMs == 2000
MaxListeners == 2

(***************************************************************************)
(* Program constants.                                                      *)
(***************************************************************************)
PROCESS_INTERVAL == 2000
PrecheckLimit == 3
CatchLimit == 2

\* Date.now() of a real run is far above PROCESS_INTERVAL, so that the first
\* processQueue call finds now - lastProcessTime (= now - 0) >= PROCESS_INTERVAL.
StartTime == PROCESS_INTERVAL
MaxTime == StartTime + MaxTicks * TickMs

Uids == 1..MaxItems

Outcomes == {"ok", "unparseable", "forbidden", "serverError", "transportError"}

(***************************************************************************)
(* Storage blobs: getItem returns null until the key was written.          *)
(***************************************************************************)
NullBlob == [has |-> FALSE, v |-> << >>]
Blob(v) == [has |-> TRUE, v |-> v]

(***************************************************************************)
(* Array helpers.                                                          *)
(***************************************************************************)
\* Array.prototype.findIndex(x => x.id === id): the first match, 0 for -1.
FindIndex(q, id) ==
    IF \E i \in 1..Len(q) : q[i].id = id
    THEN CHOOSE i \in 1..Len(q) :
            /\ q[i].id = id
            /\ \A j \in 1..(i - 1) : q[j].id # id
    ELSE 0

\* this.queue.filter(q => q.id !== id)
FilterOutId(q, id) == SelectSeq(q, LAMBDA x : x.id # id)

RECURSIVE InsertByTimestamp(_, _)
InsertByTimestamp(x, sorted) ==
    IF sorted = << >> THEN << x >>
    ELSE IF x.timestamp < Head(sorted).timestamp
         THEN << x >> \o sorted
         ELSE << Head(sorted) >> \o InsertByTimestamp(x, Tail(sorted))

RECURSIVE InsertByTimestampDesc(_, _)
InsertByTimestampDesc(x, sorted) ==
    IF sorted = << >> THEN << x >>
    ELSE IF x.timestamp > Head(sorted).timestamp
         THEN << x >> \o sorted
         ELSE << Head(sorted) >> \o InsertByTimestampDesc(x, Tail(sorted))

\* The comparator reversed, (a, b) => b.timestamp - a.timestamp: newest first.
RECURSIVE SortNewestFirst(_)
SortNewestFirst(q) ==
    IF q = << >> THEN << >>
    ELSE InsertByTimestampDesc(q[Len(q)], SortNewestFirst(SubSeq(q, 1, Len(q) - 1)))

\* [...this.queue].sort((a, b) => a.timestamp - b.timestamp): stable, ascending.
RECURSIVE SortByTimestamp(_)
SortByTimestamp(q) ==
    IF q = << >> THEN << >>
    ELSE InsertByTimestamp(q[Len(q)], SortByTimestamp(SubSeq(q, 1, Len(q) - 1)))

(***************************************************************************)
(* Ghost bookkeeping.  g[u] records, for the item created by the u-th      *)
(* addToQueue call: its id, the number of upload requests sent for it      *)
(* (xhr.send), a summary of how its uploadItem calls ended, which branch   *)
(* of the processor removed it from the queue, and whether the process was *)
(* restarted since it was created.                                         *)
(*   trace: "none"            no uploadItem call has ended yet             *)
(*          "transportOnly"   every call so far ended in a transport error *)
(*          "forbiddenFirst"  the first call ended in HTTP 403             *)
(*          "other"           anything else                                *)
(***************************************************************************)
NoGhost ==
    [id |-> 0, attempts |-> 0, trace |-> "none", removedBy |-> "none",
     carried |-> FALSE]

NextTrace(tr, outcome) ==
    CASE tr = "forbiddenFirst" -> "forbiddenFirst"
      [] tr = "none" /\ outcome = "forbidden" -> "forbiddenFirst"
      [] tr \in {"none", "transportOnly"} /\ outcome = "transportError" -> "transportOnly"
      [] OTHER -> "other"

GhostSend(s, uid) == [s EXCEPT !.g[uid].attempts = @ + 1]

GhostOutcome(s, uid, outcome) == [s EXCEPT !.g[uid].trace = NextTrace(@, outcome)]

GhostRemoved(s, uid, by) ==
    [s EXCEPT !.g[uid].removedBy = IF @ = "none" THEN by ELSE @]

(***************************************************************************)
(* Persistence.                                                            *)
(***************************************************************************)
\* saveQueue: AsyncStorage.setItem(QUEUE_STORAGE_KEY, JSON.stringify(this.queue))
SaveQueue(s) == [s EXCEPT !.pqueue = Blob(s.queue)]

\* saveHistory: AsyncStorage.setItem(HISTORY_STORAGE_KEY, JSON.stringify(this.history))
SaveHistory(s) == [s EXCEPT !.phistory = Blob(s.history)]

\* updateItemStatus: the first queue item with this id, if any, gets the status.
UpdateItemStatus(s, id, status) ==
    LET i == FindIndex(s.queue, id)
    IN  IF i = 0 THEN s
        ELSE SaveQueue([s EXCEPT !.queue[i].status = status])

\* The filter predicate inverted: q.id === id.
KeepOnlyId(s, id) ==
    SaveQueue([s EXCEPT !.queue = SelectSeq(@, LAMBDA x : x.id = id)])

\* removeFromQueue, and the same two statements where processQueue and the
\* xhr load handler spell them out.
RemoveFromQueue(s, id) == SaveQueue([s EXCEPT !.queue = FilterOutId(@, id)])

\* The history update the code repeats after a failure: the entry with this id,
\* if any, gets status 'failed' and the error text.
MarkHistoryFailed(s, id, error) ==
    LET i == FindIndex(s.history, id)
    IN  IF i = 0 THEN s
        ELSE SaveHistory([s EXCEPT !.history[i].status = "failed",
                                   !.history[i].error = error])

\* The xhr load handler on 2xx: the entry, if any, gets 'completed', progress 100.
MarkHistoryCompleted(s, id) ==
    LET i == FindIndex(s.history, id)
    IN  IF i = 0 THEN s
        ELSE SaveHistory([s EXCEPT !.history[i].status = "completed",
                                   !.history[i].progress = 100])

\* uploadItem: "Add to history with initial status only if it doesn't already exist".
InsertHistory(s, item) ==
    IF FindIndex(s.history, item.id) # 0 THEN s
    ELSE SaveHistory([s EXCEPT !.history =
            Append(@, [id |-> item.id, timestamp |-> item.timestamp,
                       status |-> "uploading", error |-> "none", progress |-> 0])])

(***************************************************************************)
(* processQueue, up to its first await.                                    *)
(***************************************************************************)
NewPass ==
    [pc |-> "health", snap |-> << >>, idx |-> 0, health |-> "unread",
     net |-> "unread", log |-> << >>]

\* A guard that forgets isProcessing.
GuardWithoutIsProcessing(s) == Len(s.queue) = 0

\* if (this.isProcessing || this.queue.length === 0) return;
ProcessQueueGuard(s) == s.isProcessing \/ Len(s.queue) = 0

\* A setTimeout that is left out.
DropTimeout(s, fireAt) == s

\* setTimeout(() => this.processQueue(), delay).  A callback due after MaxTime
\* cannot run within the bound of the clock and is not kept.
SetTimeout(s, fireAt) ==
    IF fireAt <= MaxTime THEN [s EXCEPT !.timers = @ \cup {fireAt}] ELSE s

\* processQueue without the interval check.
ProcessQueueUnlimited(s, t) ==
    IF ProcessQueueGuard(s) THEN s
    ELSE [s EXCEPT !.isProcessing = TRUE,
                   !.lastProcessTime = t,
                   !.passes = @ \cup {NewPass}]

ProcessQueue(s, t) ==
    IF ProcessQueueGuard(s) THEN s
    ELSE IF t - s.lastProcessTime < PROCESS_INTERVAL
         THEN SetTimeout(s, t + (PROCESS_INTERVAL - (t - s.lastProcessTime)))
         ELSE [s EXCEPT !.isProcessing = TRUE,
                        !.lastProcessTime = t,
                        !.passes = @ \cup {NewPass}]

\* processQueue's finally block (and, before it, the gates' own
\* "this.isProcessing = false; return").
EndPass(s, p, t) ==
    LET s1 == [s EXCEPT !.passes = @ \ {p}, !.isProcessing = FALSE]
    IN  IF Len(s1.queue) > 0
           /\ ~ \E i \in 1..Len(s1.queue) : s1.queue[i].status = "uploading"
        THEN ProcessQueue(s1, t)
        ELSE s1

\* A loop that takes the same item again while it is still in the queue.
AdvanceRetrying(s, p, t) ==
    IF FindIndex(s.queue, p.snap[p.idx].id) # 0
    THEN [s EXCEPT !.passes = (@ \ {p}) \cup {[p EXCEPT !.pc = "item"]}]
    ELSE IF p.idx < Len(p.snap)
    THEN [s EXCEPT !.passes = (@ \ {p}) \cup {[p EXCEPT !.idx = @ + 1, !.pc = "item"]}]
    ELSE [s EXCEPT !.passes = @ \ {p}, !.isProcessing = FALSE]

\* The for loop moves to the next item of sortedQueue, or the pass ends.
Advance(s, p, t) ==
    IF p.idx < Len(p.snap)
    THEN [s EXCEPT !.passes = (@ \ {p}) \cup {[p EXCEPT !.idx = @ + 1, !.pc = "item"]}]
    ELSE EndPass(s, p, t)

\* Exhaustion tested against the count after the increment.
ExhaustedAfterIncrement(item) == item.retryCount + 1 >= CatchLimit

\* if ((item.retryCount || 0) >= 2): item is the object of sortedQueue, which the
\* catch block did not change (it put a new object into this.queue).
ExhaustedInCatch(item) == item.retryCount >= CatchLimit

\* processQueue's catch block.
ProcessCatch(s, item) ==
    LET i  == FindIndex(s.queue, item.id)
        s1 == IF i = 0 THEN s
              ELSE SaveQueue([s EXCEPT !.queue[i].retryCount = @ + 1,
                                       !.queue[i].status = "pending"])
    IN  IF ExhaustedInCatch(item)
        THEN GhostRemoved(
                 SaveQueue([UpdateItemStatus(s1, item.id, "failed")
                               EXCEPT !.queue = FilterOutId(@, item.id)]),
                 item.uid, "exhausted")
        ELSE s1

(***************************************************************************)
(* uploadItem.                                                             *)
(***************************************************************************)
SetPass(s, p, p2) == [s EXCEPT !.passes = (@ \ {p}) \cup {p2}]

Logged(p, ev, uid) == [p EXCEPT !.log = Append(@, [ev |-> ev, uid |-> uid])]

\* uploadItem's catch block: it runs for what is thrown before the
\* XMLHttpRequest promise is returned; a rejection of that promise, which is
\* returned without await, passes it by.
UploadItemCatch(s, item, message) ==
    MarkHistoryFailed(UpdateItemStatus(s, item.id, "failed"), item.id, message)

\* "Skip if we've already retried too many times": the item is marked failed in
\* the queue and removed from it.
PrecheckFail(s, item) ==
    GhostRemoved(
        SaveQueue([UpdateItemStatus(s, item.id, "failed")
                      EXCEPT !.queue = FilterOutId(@, item.id)]),
        item.uid, "precheck")

\* The file is gone: uploadItem marks, removes and returns normally, and
\* processQueue removes the item once more.
FileMissing(s, item) ==
    LET s1 == UpdateItemStatus(s, item.id, "failed")
        s2 == MarkHistoryFailed(s1, item.id, "File not found on device")
        s3 == RemoveFromQueue(s2, item.id)
    IN  GhostRemoved(RemoveFromQueue(s3, item.id), item.uid, "missing")

\* The file check passed: status 'uploading', the history entry, xhr.send.
SendRequest(s, p, item) ==
    LET s1 == InsertHistory(UpdateItemStatus(s, item.id, "uploading"), item)
    IN  SetPass(GhostSend(s1, item.uid), p,
                [Logged(p, "send", item.uid) EXCEPT !.pc = "xhr"])

\* One iteration of the for loop up to xhr.send, or to the end of the
\* iteration when no request is sent.
BeginItem(s, p, t, settingsOk, fileExists) ==
    LET item == p.snap[p.idx]
    IN  IF item.retryCount >= PrecheckLimit
        THEN Advance(PrecheckFail(s, item), p, t)
        ELSE IF ~settingsOk
        THEN Advance(
                 ProcessCatch(
                     GhostOutcome(UploadItemCatch(s, item, "Settings not configured"),
                                  item.uid, "settingsMissing"),
                     item),
                 p, t)
        ELSE IF ~fileExists
        THEN Advance(FileMissing(s, item), p, t)
        ELSE SendRequest(s, p, item)

\* The xhr load handler on 2xx with a body that parses, then processQueue's
\* own removal after uploadItem resolved.
UploadSucceeded(s, item) ==
    LET s1 == MarkHistoryCompleted(s, item.id)
        s2 == RemoveFromQueue(s1, item.id)
    IN  GhostRemoved(RemoveFromQueue(s2, item.id), item.uid, "success")

\* The xhr load handler on 403, up to its first await: the queue item is
\* marked failed and the queue is stored.  The handler waits there for the
\* write, with the failed item in this.queue and in the stored blob.
Rejected403(s, item) == UpdateItemStatus(s, item.id, "failed")

\* The 403 handler after that await: the history entry, then reject(), which
\* lands in processQueue's catch block.
Rejected403Resume(s, p, t) ==
    LET item == p.snap[p.idx]
    IN  Advance(
            ProcessCatch(MarkHistoryFailed(s, item.id, "Invalid permissions"), item),
            p, t)

\* The XMLHttpRequest ends with 'load' or 'error', and the loop goes on.
FinishRequest(s, p, t, outcome) ==
    LET item == p.snap[p.idx]
        sg   == GhostOutcome(s, item.uid, outcome)
        p2   == Logged(p, IF outcome = "ok" THEN "ok" ELSE "fail", item.uid)
        s1   == SetPass(sg, p, p2)
    IN  CASE outcome = "ok" -> Advance(UploadSucceeded(s1, item), p2, t)
          [] outcome = "forbidden" ->
                SetPass(Rejected403(s1, item), p2, [p2 EXCEPT !.pc = "rejected"])
          [] OTHER -> Advance(ProcessCatch(s1, item), p2, t)

(***************************************************************************)
(* The pre-flight gates of processQueue.                                   *)
(***************************************************************************)
\* A wifi check that was left out.
ConnectedIsEnough(net) == net # "offline"

\* netInfo.isConnected and netInfo.type === 'wifi'
NetGateOpen(net) == net = "wifi"

AfterHealth(s, p, t, ok) ==
    IF ok
    THEN SetPass(s, p, [p EXCEPT !.pc = "netinfo", !.health = "ok"])
    ELSE EndPass(SetPass(s, p, [p EXCEPT !.health = "fail"]),
                 [p EXCEPT !.health = "fail"], t)

\* After NetInfo.fetch(): the gates, then the sort and the first loop test.
AfterNetInfo(s, p, t, net) ==
    IF ~NetGateOpen(net)
    THEN EndPass(SetPass(s, p, [p EXCEPT !.net = net]), [p EXCEPT !.net = net], t)
    ELSE LET p2 == [p EXCEPT !.net = net, !.snap = SortByTimestamp(s.queue),
                             !.idx = 1, !.pc = "item"]
         IN  IF p2.snap = << >>
             THEN EndPass(SetPass(s, p, p2), p2, t)
             ELSE SetPass(s, p, p2)

(***************************************************************************)
(* loadHistory after its getItem resolved with blob.                       *)
(***************************************************************************)
\* A reconciliation that does not look at the queue.
ReconcileIgnoringQueue(h, q) ==
    [i \in 1..Len(h) |->
        IF h[i].status \in {"uploading", "pending"}
        THEN [h[i] EXCEPT !.status = "failed", !.error = "Upload was interrupted"]
        ELSE h[i]]

\* "Check for any partial uploads that aren't in the queue"
Reconcile(h, q) ==
    [i \in 1..Len(h) |->
        IF h[i].status \in {"uploading", "pending"} /\ FindIndex(q, h[i].id) = 0
        THEN [h[i] EXCEPT !.status = "failed", !.error = "Upload was interrupted"]
        ELSE h[i]]

\* A load that adds the stored entries to this.history instead of replacing it.
LoadHistoryAppending(s, blob) ==
    IF blob.has
    THEN SaveHistory([s EXCEPT !.history = @ \o Reconcile(blob.v, s.queue)])
    ELSE s

LoadHistoryResume(s, blob) ==
    IF blob.has
    THEN SaveHistory([s EXCEPT !.history = Reconcile(blob.v, s.queue)])
    ELSE s

\* loadQueue after its getItem resolved with blob.
LoadQueueResume(s, blob) ==
    IF blob.has THEN [s EXCEPT !.queue = blob.v] ELSE s

(***************************************************************************)
(* SettingsService (settingsService.ts) and ContactsService.               *)
(* A string is a sequence of tokens: " " is a blank, "/" a slash,          *)
(* "http://" the protocol prefix, anything else a piece of text.           *)
(***************************************************************************)
MaxUpdates == 3

DefaultFrequency == 180000
MinFrequency == 30000

RECURSIVE TrimStart(_)
TrimStart(str) ==
    IF str # << >> /\ Head(str) = " " THEN TrimStart(Tail(str)) ELSE str

RECURSIVE TrimEnd(_)
TrimEnd(str) ==
    IF str # << >> /\ str[Len(str)] = " "
    THEN TrimEnd(SubSeq(str, 1, Len(str) - 1))
    ELSE str

\* String.prototype.trim()
Trim(str) == TrimEnd(TrimStart(str))

\* !str.trim(): the empty string is falsy.
IsBlank(str) == Trim(str) = << >>

\* str.replace(/\/+$/, '')
RECURSIVE StripTrailingSlashes(_)
StripTrailingSlashes(str) ==
    IF str # << >> /\ str[Len(str)] = "/"
    THEN StripTrailingSlashes(SubSeq(str, 1, Len(str) - 1))
    ELSE str

\* baseUrl.startsWith('http://') || baseUrl.startsWith('https://')
StartsWithProtocol(str) == str # << >> /\ Head(str) = "http://"

\* "Ensure the API endpoint has the correct format"
WithProtocol(str) ==
    LET baseUrl == StripTrailingSlashes(str)
    IN  IF StartsWithProtocol(baseUrl) THEN baseUrl ELSE << "http://" >> \o baseUrl

\* The field initialiser of SettingsService.settings.
DefaultSettings ==
    [userId |-> << >>, apiEndpoint |-> << >>,
     messageCheckFrequency |-> DefaultFrequency]

\* A field of Partial<Settings>: given with a value, or undefined.
Undefined(v) == [given |-> FALSE, v |-> v]
Given(v) == [given |-> TRUE, v |-> v]

UserIdInputs == {<< >>, << " " >>, << "u" >>, << "v" >>}
EndpointInputs == {<< >>, << " " >>, << "h" >>, << "h", "/" >>, << "http://", "h" >>}
FrequencyInputs == {10000, 60000}

PartialSettings ==
    [userId : {Undefined(<< >>)} \cup {Given(v) : v \in UserIdInputs},
     apiEndpoint : {Undefined(<< >>)} \cup {Given(v) : v \in EndpointInputs},
     messageCheckFrequency : {Undefined(0)} \cup {Given(v) : v \in FrequencyInputs}]

\* The three validation throws at the head of updateSettings.
UpdateIsInvalid(new) ==
    \/ new.userId.given /\ IsBlank(new.userId.v)
    \/ new.apiEndpoint.given /\ IsBlank(new.apiEndpoint.v)
    \/ new.messageCheckFrequency.given /\ new.messageCheckFrequency.v < MinFrequency

\* clearContacts: this.contacts = [] and removeItem (a failure is swallowed).
ClearContacts(s) == [s EXCEPT !.contacts = << >>, !.pcontacts = NullBlob]

\* { ...this.settings, ...newSettings } after the endpoint was normalised.
MergeSettings(old, new) ==
    [userId |-> IF new.userId.given THEN new.userId.v ELSE old.userId,
     apiEndpoint |-> IF new.apiEndpoint.given
                     THEN (IF new.apiEndpoint.v # << >>
                           THEN WithProtocol(new.apiEndpoint.v)
                           ELSE new.apiEndpoint.v)
                     ELSE old.apiEndpoint,
     messageCheckFrequency |-> IF new.messageCheckFrequency.given
                               THEN new.messageCheckFrequency.v
                               ELSE old.messageCheckFrequency]

\* saveSettings throws before the write when a required field is blank.
SaveIsRefused(st) == IsBlank(st.userId) \/ IsBlank(st.apiEndpoint)

\* updateSettings from "this.settings = {...}" on: the assignment, then
\* saveSettings, whose throw (refusal or a rejected setItem) is rethrown.
AssignAndSave(s, new, writeOk) ==
    LET s1 == [s EXCEPT !.settings = MergeSettings(@, new)]
    IN  IF SaveIsRefused(s1.settings) \/ ~writeOk
        THEN [s1 EXCEPT !.lastUpdate = "rejected"]
        ELSE [s1 EXCEPT !.psettings = Blob(s1.settings), !.lastUpdate = "resolved"]

\* updateSettings(newSettings); writeOk is the outcome of AsyncStorage.setItem.
UpdateSettingsCall(s, new, writeOk) ==
    IF UpdateIsInvalid(new)
    THEN [s EXCEPT !.lastUpdate = "rejected"]
    ELSE LET s1 == IF new.userId.given /\ new.userId.v # s.settings.userId
                   THEN ClearContacts(s)
                   ELSE s
         IN  AssignAndSave(s1, new, writeOk)

\* loadSettings after its getItem resolved with blob.
LoadSettingsResume(blob) ==
    IF blob.has
    THEN [userId |-> blob.v.userId,
          apiEndpoint |-> WithProtocol(blob.v.apiEndpoint),
          messageCheckFrequency |-> blob.v.messageCheckFrequency]
    ELSE DefaultSettings

(***************************************************************************)
(* MessageService (contactsService.ts, from line 124).  A message is its   *)
(* id, its timestamp and its viewed flag; the server's message n has       *)
(* timestamp n.  Calls are taken one after the other, each as one step     *)
(* from the call to the settling of its promise; writeOk is the outcome of *)
(* the call's AsyncStorage write.                                          *)
(***************************************************************************)
MaxMessages == 3

MessageIds == 1..MaxMessages

\* The mailbox responses tried: every list of at most two of the messages.
MailboxData ==
    {<< >>} \cup {<< a >> : a \in MessageIds}
            \cup {<< a, b >> : a \in MessageIds, b \in MessageIds}

RECURSIVE InsertMessage(_, _)
InsertMessage(x, sorted) ==
    IF sorted = << >> THEN << x >>
    ELSE IF x.timestamp > Head(sorted).timestamp
         THEN << x >> \o sorted
         ELSE << Head(sorted) >> \o InsertMessage(x, Tail(sorted))

\* getMessages: [...this.messages].sort((a, b) => b.timestamp - a.timestamp)
RECURSIVE GetMessages(_)
GetMessages(ms) ==
    IF ms = << >> THEN << >>
    ELSE InsertMessage(ms[Len(ms)], GetMessages(SubSeq(ms, 1, Len(ms) - 1)))

\* saveMessages: a rejected setItem is logged and swallowed.
SaveMessages(s, ms, writeOk) ==
    IF writeOk THEN [s EXCEPT !.pmessages = Blob(ms)] ELSE s

\* this.messages.some(msg => !msg.viewed)
SomeUnviewed(ms) == \E i \in 1..Len(ms) : ~ms[i].viewed

HasMessage(ms, id) == \E i \in 1..Len(ms) : ms[i].id = id

\* The for loop of checkForNewMessages: every item of data whose id is not
\* known yet is pushed, unviewed, onto currentMessages.
RECURSIVE PushNew(_, _)
PushNew(current, data) ==
    IF data = << >> THEN current
    ELSE PushNew(
             IF HasMessage(current, Head(data)) THEN current
             ELSE Append(current, [id |-> Head(data), timestamp |-> Head(data),
                                   viewed |-> FALSE]),
             Tail(data))

\* checkForNewMessages.  fetched is FALSE when the call returns early
\* (settings missing, offline) or the request fails: nothing is changed then.
CheckForNewMessagesCall(s, fetched, data, writeOk) ==
    IF ~fetched THEN s
    ELSE LET current == GetMessages(s.messages)
             merged  == PushNew(current, data)
         IN  IF merged # current
             THEN [SaveMessages(s, merged, writeOk)
                      EXCEPT !.messages = merged, !.hasUnviewed = TRUE]
             ELSE [s EXCEPT !.hasUnviewed = SomeUnviewed(current)]

\* markAsViewed: this.messages.find(m => m.id === messageId), the first match.
MarkAsViewedCall(s, id, writeOk) ==
    IF \E i \in 1..Len(s.messages) : s.messages[i].id = id /\ ~s.messages[i].viewed
    THEN LET i  == CHOOSE i \in 1..Len(s.messages) : s.messages[i].id = id
             ms == [s.messages EXCEPT ![i].viewed = TRUE]
         IN  [SaveMessages([s EXCEPT !.messages = ms], ms, writeOk)
                 EXCEPT !.hasUnviewed = SomeUnviewed(ms)]
    ELSE s

\* loadMessages after its getItem resolved with blob.
LoadMessagesResume(s, blob) ==
    IF blob.has
    THEN [s EXCEPT !.messages = blob.v, !.hasUnviewed = SomeUnviewed(blob.v)]
    ELSE s

\* deleteMessage: the sorted copy without the message is saved, then loaded.
DeleteMessageCall(s, id, writeOk) ==
    LET updated == SelectSeq(GetMessages(s.messages), LAMBDA m : m.id # id)
        s1      == SaveMessages(s, updated, writeOk)
    IN  LoadMessagesResume(s1, s1.pmessages)

\* clearMessages: this.messages = [] and removeItem; a rejected removeItem is
\* rethrown with this.messages already empty.
ClearMessagesCall(s, writeOk) ==
    IF writeOk THEN [s EXCEPT !.messages = << >>, !.pmessages = NullBlob]
    ELSE [s EXCEPT !.messages = << >>]

(***************************************************************************)
(* The state machine.                                                      *)
(***************************************************************************)
Cur ==
    [queue |-> queue, pqueue |-> pqueue, history |-> history,
     phistory |-> phistory, isProcessing |-> isProcessing,
     lastProcessTime |-> lastProcessTime, timers |-> timers,
     passes |-> passes, g |-> g]

Commit(s) ==
    /\ queue' = s.queue
    /\ pqueue' = s.pqueue
    /\ history' = s.history
    /\ phistory' = s.phistory
    /\ isProcessing' = s.isProcessing
    /\ lastProcessTime' = s.lastProcessTime
    /\ timers' = s.timers
    /\ passes' = s.passes
    /\ g' = s.g

\* The state the constructor leaves: loadQueue and loadHistory wait for their
\* getItem, the listener is registered, and processQueue returned at once on
\* the empty queue.  Nothing was ever stored.
Init ==
    /\ queue = << >>
    /\ pqueue = NullBlob
    /\ history = << >>
    /\ phistory = NullBlob
    /\ isProcessing = FALSE
    /\ lastProcessTime = 0
    /\ timers = {}
    /\ passes = {}
    /\ addsPending = 0
    /\ loadQ = [pending |-> TRUE, value |-> NullBlob]
    /\ loadH = [pending |-> TRUE, value |-> NullBlob]
    /\ now = StartTime
    /\ nextUid = 1
    /\ crashes = 0
    /\ g = [u \in Uids |-> NoGhost]
    /\ isMonitoring = TRUE
    /\ listeners = << "processQueue" >>
    /\ addsRejected = 0
    /\ settings = DefaultSettings
    /\ psettings = NullBlob
    /\ contacts = << >>
    /\ pcontacts = NullBlob
    /\ updateCalls = 0
    /\ lastUpdate = "none"
    /\ messages = << >>
    /\ pmessages = NullBlob
    /\ hasUnviewed = FALSE

\* addToQueue up to "await this.saveQueue()".
AddToQueue ==
    /\ nextUid <= MaxItems
    /\ LET item == [uid |-> nextUid, id |-> now, timestamp |-> now,
                    status |-> "pending", retryCount |-> 0]
           s1 == SaveQueue([Cur EXCEPT !.queue = Append(@, item),
                                       !.g[nextUid].id = now])
       IN  Commit(s1)
    /\ nextUid' = nextUid + 1
    /\ addsPending' = addsPending + 1
    /\ UNCHANGED << loadQ, loadH, now, crashes >>
    /\ UNCHANGED << monitorVars, otherVars >>

\* addToQueue when AsyncStorage.setItem rejects: saveQueue has no catch, so the
\* await at line 77 throws out of addToQueue.  The item stays in this.queue,
\* nothing is stored, lastProcessTime is not reset and processQueue is not
\* called.
AddToQueueFails ==
    /\ nextUid <= MaxItems
    /\ LET item == [uid |-> nextUid, id |-> now, timestamp |-> now,
                    status |-> "pending", retryCount |-> 0]
       IN  Commit([Cur EXCEPT !.queue = Append(@, item), !.g[nextUid].id = now])
    /\ nextUid' = nextUid + 1
    /\ addsRejected' = addsRejected + 1
    /\ UNCHANGED << addsPending, loadQ, loadH, now, crashes >>
    /\ UNCHANGED << monitorVars, serviceVars >>

\* An addToQueue that leaves lastProcessTime alone.
KeepLastProcessTime(s) == s

\* this.lastProcessTime = 0
ResetLastProcessTime(s) == [s EXCEPT !.lastProcessTime = 0]

\* addToQueue after the await: "Process immediately for new uploads".
AddToQueueResume ==
    /\ addsPending > 0
    /\ Commit(ProcessQueue(ResetLastProcessTime(Cur), now))
    /\ addsPending' = addsPending - 1
    /\ UNCHANGED << loadQ, loadH, now, nextUid, crashes >>
    /\ UNCHANGED << monitorVars, otherVars >>

\* One registered callback runs on a NetInfo state: the one registered by
\* startNetworkMonitoring calls processQueue when connected, the empty arrow
\* function of stopNetworkMonitoring does nothing.
OnNetInfo(s, listener, isConnected, t) ==
    IF listener = "processQueue" /\ isConnected THEN ProcessQueue(s, t) ELSE s

\* NetInfo delivers the state to every registered callback, in order.
RECURSIVE Notify(_, _, _, _)
Notify(s, ls, isConnected, t) ==
    IF ls = << >> THEN s
    ELSE Notify(OnNetInfo(s, Head(ls), isConnected, t), Tail(ls), isConnected, t)

\* NetInfo reports a connectivity state.
NetInfoEvent ==
    /\ \E isConnected \in BOOLEAN :
          Commit(Notify(Cur, listeners, isConnected, now))
    /\ UNCHANGED << addsPending, loadQ, loadH, now, nextUid, crashes >>
    /\ UNCHANGED << monitorVars, otherVars >>

\* stopNetworkMonitoring: the flag is cleared and one more callback, an empty
\* arrow function, is given to NetInfo.addEventListener.  The unsubscribe
\* function that addEventListener returned in startNetworkMonitoring was not
\* kept, so the callback registered there stays.
StopNetworkMonitoring ==
    /\ Len(listeners) < MaxListeners
    /\ isMonitoring' = FALSE
    /\ listeners' = Append(listeners, "empty")
    /\ UNCHANGED << queue, pqueue, history, phistory, isProcessing,
                    lastProcessTime, timers, passes, addsPending, loadQ, loadH,
                    now, nextUid, crashes, g >>
    /\ UNCHANGED otherVars

\* A setTimeout callback of processQueue comes due.
TimerFires ==
    /\ \E fireAt \in timers :
          /\ fireAt <= now
          /\ Commit(ProcessQueue([Cur EXCEPT !.timers = @ \ {fireAt}], now))
    /\ UNCHANGED << addsPending, loadQ, loadH, now, nextUid, crashes >>
    /\ UNCHANGED << monitorVars, otherVars >>

\* serverHealthService.checkServerHealth() resolves.
HealthChecked ==
    /\ \E p \in passes, ok \in BOOLEAN :
          /\ p.pc = "health"
          /\ Commit(AfterHealth(Cur, p, now, ok))
    /\ UNCHANGED << addsPending, loadQ, loadH, now, nextUid, crashes >>
    /\ UNCHANGED << monitorVars, otherVars >>

\* NetInfo.fetch() resolves.
NetInfoFetched ==
    /\ \E p \in passes, net \in {"offline", "cellular", "wifi"} :
          /\ p.pc = "netinfo"
          /\ Commit(AfterNetInfo(Cur, p, now, net))
    /\ UNCHANGED << addsPending, loadQ, loadH, now, nextUid, crashes >>
    /\ UNCHANGED << monitorVars, otherVars >>

\* The loop takes the next item of sortedQueue.
ItemStarts ==
    /\ \E p \in passes, settingsOk \in BOOLEAN, fileExists \in BOOLEAN :
          /\ p.pc = "item"
          /\ Commit(BeginItem(Cur, p, now, settingsOk, fileExists))
    /\ UNCHANGED << addsPending, loadQ, loadH, now, nextUid, crashes >>
    /\ UNCHANGED << monitorVars, otherVars >>

\* The XMLHttpRequest fires 'load' or 'error'.
RequestEnds ==
    /\ \E p \in passes, outcome \in Outcomes :
          /\ p.pc = "xhr"
          /\ Commit(FinishRequest(Cur, p, now, outcome))
    /\ UNCHANGED << addsPending, loadQ, loadH, now, nextUid, crashes >>
    /\ UNCHANGED << monitorVars, otherVars >>

\* The XMLHttpRequest fires 'timeout' or 'abort'.  uploadItem registers
\* listeners for 'load' and 'error' only and sets no xhr.timeout of its own, so
\* no callback runs: the promise of uploadItem stays pending and processQueue
\* stays at "await this.uploadItem(item)".
RequestTimesOut ==
    /\ \E p \in passes :
          /\ p.pc = "xhr"
          /\ Commit(SetPass(Cur, p, [p EXCEPT !.pc = "unsettled"]))
    /\ UNCHANGED << addsPending, loadQ, loadH, now, nextUid, crashes >>
    /\ UNCHANGED << monitorVars, otherVars >>

\* The 403 handler's updateItemStatus resolves.
RejectionHandled ==
    /\ \E p \in passes :
          /\ p.pc = "rejected"
          /\ Commit(Rejected403Resume(Cur, p, now))
    /\ UNCHANGED << addsPending, loadQ, loadH, now, nextUid, crashes >>
    /\ UNCHANGED << monitorVars, otherVars >>

\* loadQueue's getItem resolves.
QueueLoaded ==
    /\ loadQ.pending
    /\ Commit(LoadQueueResume(Cur, loadQ.value))
    /\ loadQ' = [loadQ EXCEPT !.pending = FALSE]
    /\ UNCHANGED << addsPending, loadH, now, nextUid, crashes >>
    /\ UNCHANGED << monitorVars, otherVars >>

\* loadHistory's getItem resolves.
HistoryLoaded ==
    /\ loadH.pending
    /\ Commit(LoadHistoryResume(Cur, loadH.value))
    /\ loadH' = [loadH EXCEPT !.pending = FALSE]
    /\ UNCHANGED << addsPending, loadQ, now, nextUid, crashes >>
    /\ UNCHANGED << monitorVars, otherVars >>

\* Time passes.
Tick ==
    /\ now + TickMs <= MaxTime
    /\ now' = now + TickMs
    /\ UNCHANGED << queue, pqueue, history, phistory, isProcessing,
                    lastProcessTime, timers, passes, addsPending, loadQ, loadH,
                    nextUid, crashes, g >>
    /\ UNCHANGED << monitorVars, otherVars >>

\* The process is killed and started again: only the two blobs survive, and
\* the constructor runs on them.
Restart ==
    /\ crashes < MaxCrashes
    /\ crashes' = crashes + 1
    /\ queue' = << >>
    /\ history' = << >>
    /\ isProcessing' = FALSE
    /\ lastProcessTime' = 0
    /\ timers' = {}
    /\ passes' = {}
    /\ addsPending' = 0
    /\ loadQ' = [pending |-> TRUE, value |-> pqueue]
    /\ loadH' = [pending |-> TRUE, value |-> phistory]
    /\ g' = [u \in Uids |->
               IF u < nextUid
               THEN [NoGhost EXCEPT !.id = g[u].id, !.trace = "other",
                                    !.carried = TRUE]
               ELSE g[u]]
    /\ isMonitoring' = TRUE
    /\ listeners' = << "processQueue" >>
    /\ UNCHANGED << pqueue, phistory, now, nextUid >>
    /\ UNCHANGED otherVars

(***************************************************************************)
(* The settings screen: the steps of SettingsService and ContactsService.  *)
(***************************************************************************)
SettingsCur ==
    [settings |-> settings, psettings |-> psettings, contacts |-> contacts,
     pcontacts |-> pcontacts, lastUpdate |-> lastUpdate]

SettingsCommit(s) ==
    /\ settings' = s.settings
    /\ psettings' = s.psettings
    /\ contacts' = s.contacts
    /\ pcontacts' = s.pcontacts
    /\ lastUpdate' = s.lastUpdate

\* A call of updateSettings, from the call to the settling of its promise.
UpdateSettings ==
    /\ updateCalls < MaxUpdates
    /\ \E new \in PartialSettings, writeOk \in BOOLEAN :
          SettingsCommit(UpdateSettingsCall(SettingsCur, new, writeOk))
    /\ updateCalls' = updateCalls + 1
    /\ UNCHANGED << uploadVars, monitorVars, addsRejected, messageVars >>

\* fetchContacts got the list from the server: this.contacts = data, saved.
FetchContacts ==
    /\ contacts' = << "c" >>
    /\ pcontacts' = Blob(contacts')
    /\ UNCHANGED << settings, psettings, updateCalls, lastUpdate >>
    /\ UNCHANGED << uploadVars, monitorVars, addsRejected, messageVars >>

\* The app is started again: the field initialisers, then loadSettings.
\* Contacts are read from storage when they are first asked for.
SettingsRestart ==
    /\ settings' = LoadSettingsResume(psettings)
    /\ contacts' = << >>
    /\ lastUpdate' = "none"
    /\ UNCHANGED << psettings, pcontacts, updateCalls >>
    /\ UNCHANGED << uploadVars, monitorVars, addsRejected, messageVars >>

NextSettings ==
    \/ UpdateSettings
    \/ FetchContacts
    \/ SettingsRestart

SettingsSpec == Init /\ [][NextSettings]_vars

(***************************************************************************)
(* The inbox: the steps of MessageService.                                 *)
(***************************************************************************)
MessagesCur ==
    [messages |-> messages, pmessages |-> pmessages, hasUnviewed |-> hasUnviewed]

MessagesCommit(s) ==
    /\ messages' = s.messages
    /\ pmessages' = s.pmessages
    /\ hasUnviewed' = s.hasUnviewed

CheckForNewMessages ==
    /\ \E fetched \in BOOLEAN, data \in MailboxData, writeOk \in BOOLEAN :
          MessagesCommit(CheckForNewMessagesCall(MessagesCur, fetched, data, writeOk))
    /\ UNCHANGED << uploadVars, monitorVars, addsRejected, settingsVars >>

MarkAsViewed ==
    /\ \E id \in MessageIds, writeOk \in BOOLEAN :
          MessagesCommit(MarkAsViewedCall(MessagesCur, id, writeOk))
    /\ UNCHANGED << uploadVars, monitorVars, addsRejected, settingsVars >>

DeleteMessage ==
    /\ \E id \in MessageIds, writeOk \in BOOLEAN :
          MessagesCommit(DeleteMessageCall(MessagesCur, id, writeOk))
    /\ UNCHANGED << uploadVars, monitorVars, addsRejected, settingsVars >>

ClearMessages ==
    /\ \E writeOk \in BOOLEAN :
          MessagesCommit(ClearMessagesCall(MessagesCur, writeOk))
    /\ UNCHANGED << uploadVars, monitorVars, addsRejected, settingsVars >>

\* The app is started again: the field initialisers, then loadMessages.
MessagesRestart ==
    /\ MessagesCommit(
           LoadMessagesResume([MessagesCur EXCEPT !.messages = << >>,
                                                  !.hasUnviewed = FALSE],
                              pmessages))
    /\ UNCHANGED << uploadVars, monitorVars, addsRejected, settingsVars >>

NextMessages ==
    \/ CheckForNewMessages
    \/ MarkAsViewed
    \/ DeleteMessage
    \/ ClearMessages
    \/ MessagesRestart

MessagesSpec == Init /\ [][NextMessages]_vars

Next ==
    \/ AddToQueue
    \/ AddToQueueResume
    \/ NetInfoEvent
    \/ TimerFires
    \/ HealthChecked
    \/ NetInfoFetched
    \/ ItemStarts
    \/ RequestEnds
    \/ RejectionHandled
    \/ QueueLoaded
    \/ HistoryLoaded
    \/ Tick
    \/ Restart

Spec == Init /\ [][Next]_vars

(***************************************************************************)
(* A process that is not killed, with the scheduling JavaScript gives it:  *)
(* time passes, a timer that is due runs its callback, and a storage write *)
(* that addToQueue awaits completes.  Nothing is assumed about the network *)
(* or about the user: NetInfo events, new addToQueue calls and the ends of *)
(* probes and requests may or may not come.                                *)
(***************************************************************************)
NextRunning ==
    \/ AddToQueue
    \/ AddToQueueResume
    \/ NetInfoEvent
    \/ TimerFires
    \/ HealthChecked
    \/ NetInfoFetched
    \/ ItemStarts
    \/ RequestEnds
    \/ RejectionHandled
    \/ QueueLoaded
    \/ HistoryLoaded
    \/ Tick

RunningSpec ==
    /\ Init
    /\ [][NextRunning]_vars
    /\ WF_vars(Tick)
    /\ WF_vars(TimerFires)
    /\ WF_vars(AddToQueueResume)

(***************************************************************************)
(* The running process on a device whose storage can refuse the write that *)
(* addToQueue awaits (disk full, quota).                                   *)
(***************************************************************************)
NextFaulty ==
    \/ NextRunning
    \/ AddToQueueFails

FaultySpec == Init /\ [][NextFaulty]_vars

(***************************************************************************)
(* The running process on a network where a request can also end without  *)
(* 'load' and without 'error': the platform gives up on a stalled request  *)
(* ('timeout') or the request is cancelled ('abort').                      *)
(***************************************************************************)
NextStalling ==
    \/ NextRunning
    \/ RequestTimesOut

StallingSpec == Init /\ [][NextStalling]_vars

(***************************************************************************)
(* The running process whose owner may call stopNetworkMonitoring.         *)
(***************************************************************************)
NextMonitored ==
    \/ NextRunning
    \/ StopNetworkMonitoring

MonitoredSpec == Init /\ [][NextMonitored]_vars

(***************************************************************************)
(* Vocabulary of the properties.                                           *)
(***************************************************************************)
UidsOf(q) == {q[i].uid : i \in 1..Len(q)}

IdsOf(q) == {q[i].id : i \in 1..Len(q)}

\* The item is in the Queue Store: in this.queue or in the stored blob.
InQueueStore(u) == u \in UidsOf(queue) \/ u \in UidsOf(pqueue.v)

\* An upload request for the item is in flight.
InFlight(u) == \E p \in passes : p.pc = "xhr" /\ p.snap[p.idx].uid = u

\* The item was created in this process lifetime.
Fresh(u) == u < nextUid /\ ~g[u].carried

\* No other addToQueue call read the same clock value.
UniqueId(u) == \A v \in Uids \ {u} : g[v].id # g[u].id

HistoryHas(id, statuses) ==
    \E i \in 1..Len(history) : history[i].id = id /\ history[i].status \in statuses

(***************************************************************************)
(* C1.  No item leaves the Queue Store without a History Log entry with a  *)
(* terminal status: every item that the processor removed from the queue   *)
(* (after success, exhaustion, the retry pre-check or a missing file) has  *)
(* an entry, under its id, that is completed or failed.                    *)
(***************************************************************************)
C1_RemovedItemsHaveTerminalEntry ==
    \A u \in Uids :
        g[u].removedBy # "none" => HistoryHas(g[u].id, {"completed", "failed"})

(***************************************************************************)
(* C2.  As claimed: an item with a unique id whose every attempt ended in  *)
(* a transport error has had exactly four upload requests when the         *)
(* exhaustion branch marks it failed and removes it.                       *)
(***************************************************************************)
C2_FourAttemptsBeforeFailed ==
    \A u \in Uids :
        (Fresh(u) /\ UniqueId(u) /\ g[u].trace = "transportOnly"
            /\ g[u].removedBy = "exhausted")
        => g[u].attempts = 4

(***************************************************************************)
(* C2, amended.  An item whose every attempt ended in a transport error is *)
(* never sent a fourth time; once three requests for it have ended it has  *)
(* been marked failed and removed from the Queue Store by the exhaustion   *)
(* branch; and, when no other item shares its id, that branch removes it   *)
(* after exactly three requests.                                           *)
(***************************************************************************)
C2_ThreeAttemptsBeforeFailed ==
    \A u \in Uids :
        (Fresh(u) /\ g[u].trace = "transportOnly")
        => /\ g[u].attempts <= 3
           /\ (g[u].attempts = 3 /\ ~InFlight(u))
                 => (g[u].removedBy = "exhausted" /\ ~InQueueStore(u))
           /\ (UniqueId(u) /\ g[u].removedBy = "exhausted") => g[u].attempts = 3

C2_Witness ==
    \E u \in Uids :
        /\ Fresh(u) /\ UniqueId(u)
        /\ g[u].trace = "transportOnly"
        /\ g[u].attempts = 3
        /\ g[u].removedBy = "exhausted"
        /\ ~InQueueStore(u)

(***************************************************************************)
(* C3.  An item whose first upload request was answered with HTTP 403 has  *)
(* had exactly one request, and once that request has ended the item is    *)
(* out of the Queue Store and its History entry is failed.                 *)
(***************************************************************************)
C3_RejectedItemFailsAfterOneAttempt ==
    \A u \in Uids :
        (Fresh(u) /\ g[u].trace = "forbiddenFirst")
        => /\ g[u].attempts = 1
           /\ ~InQueueStore(u)
           /\ HistoryHas(g[u].id, {"failed"})

(***************************************************************************)
(* C4.  An item removed because its media file does not exist is out of    *)
(* the Queue Store and has a History entry with status failed and the      *)
(* file-not-found reason.                                                  *)
(***************************************************************************)
C4_MissingPayloadRecordedAsFailed ==
    \A u \in Uids :
        g[u].removedBy = "missing"
        => /\ ~InQueueStore(u)
           /\ \E i \in 1..Len(history) :
                 /\ history[i].id = g[u].id
                 /\ history[i].status = "failed"
                 /\ history[i].error = "File not found on device"

(***************************************************************************)
(* C5.  Gate closure.  A pass reaches the items only after it has read the *)
(* server as healthy and the network as connected wifi, so a pass that     *)
(* read a closed gate has sent no upload request; and the step in which a  *)
(* pass gives up at a gate changes neither this.queue nor the stored queue *)
(* nor the History Log (in memory and stored) nor the count of requests.   *)
(***************************************************************************)
C5_ItemsOnlyBehindOpenGates ==
    \A p \in passes :
        (p.pc \in {"item", "xhr"} \/ p.log # << >>)
        => (p.health = "ok" /\ p.net = "wifi")

\* The step of a pass that ends while still at its gates.  Restart apart, a
\* pass at the gates ends exactly when isProcessing falls or, if the finally
\* block started the next pass at once, when lastProcessTime grows.
C5_PassEndsAtGate ==
    /\ \E p \in passes : p.pc \in {"health", "netinfo"}
    /\ crashes' = crashes
    /\ (~isProcessing' \/ lastProcessTime' > lastProcessTime)

C5_GateClosure ==
    /\ [] C5_ItemsOnlyBehindOpenGates
    /\ [][C5_PassEndsAtGate
            => /\ queue' = queue
               /\ pqueue' = pqueue
               /\ history' = history
               /\ phistory' = phistory
               /\ \A u \in Uids : g'[u].attempts = g[u].attempts]_vars

\* A pass has started and ended, all items are still pending with retryCount
\* 0 and no request was ever sent: the pass gave up at a gate.
C5_Witness ==
    /\ crashes = 0
    /\ passes = {} /\ ~isProcessing
    /\ lastProcessTime >= StartTime
    /\ Len(queue) = MaxItems
    /\ pqueue = Blob(queue)
    /\ \A i \in 1..Len(queue) :
          queue[i].status = "pending" /\ queue[i].retryCount = 0
    /\ \A u \in Uids : g[u].attempts = 0 /\ g[u].trace = "none"
    /\ history = << >>

(***************************************************************************)
(* C6.  Startup reconciliation.  When loadHistory's read resolves with a   *)
(* stored log, every stored entry that was pending or uploading and whose  *)
(* id is not in this.queue becomes failed with the error 'Upload was       *)
(* interrupted', every other stored entry is taken over unchanged, and the *)
(* result is stored; with nothing stored, the History Log is left alone.   *)
(***************************************************************************)
C6_Reconciliation ==
    [][(loadH.pending /\ ~loadH'.pending)
        => IF loadH.value.has
           THEN /\ Len(history') = Len(loadH.value.v)
                /\ \A i \in 1..Len(loadH.value.v) :
                      LET e == loadH.value.v[i]
                      IN  IF e.status \in {"pending", "uploading"}
                             /\ e.id \notin IdsOf(queue)
                          THEN history'[i] =
                                  [e EXCEPT !.status = "failed",
                                            !.error = "Upload was interrupted"]
                          ELSE history'[i] = e
                /\ phistory' = Blob(history')
           ELSE history' = history /\ phistory' = phistory]_vars

\* After a restart the log was loaded; one entry was rewritten as interrupted
\* and another, whose item is in the queue, was left uploading.
C6_Witness ==
    /\ crashes = 1
    /\ ~loadH.pending
    /\ \E i \in 1..Len(history) :
          history[i].status = "failed" /\ history[i].error = "Upload was interrupted"
    /\ \E i \in 1..Len(history) :
          history[i].status = "uploading" /\ history[i].id \in IdsOf(queue)
    /\ passes = {}

(***************************************************************************)
(* C7.  Reconciliation is idempotent: loadHistory run twice in succession  *)
(* (read the stored log, reconcile, store) leaves the same History Log, in *)
(* memory and stored, as running it once.                                  *)
(***************************************************************************)
LoadHistoryRun(s) == LoadHistoryResume(s, s.phistory)

C7_ReconciliationIdempotent ==
    LET once  == LoadHistoryRun(Cur)
        twice == LoadHistoryRun(once)
    IN  twice.history = once.history /\ twice.phistory = once.phistory

\* A state in which the first run rewrites an entry.
C7_Witness ==
    /\ phistory.has
    /\ Len(phistory.v) > 0
    /\ LoadHistoryRun(Cur).history # phistory.v
    /\ \E i \in 1..Len(phistory.v) :
          LoadHistoryRun(Cur).history[i].error = "Upload was interrupted"
             /\ phistory.v[i].error = "none"

(***************************************************************************)
(* C8.  Single-flight.  At most one pass is active and at most one upload  *)
(* request is in flight; while a pass is active isProcessing is set, and a *)
(* call of processQueue then returns without changing anything.            *)
(***************************************************************************)
C8_SingleFlight ==
    /\ Cardinality(passes) <= 1
    /\ Cardinality({p \in passes : p.pc = "xhr"}) <= 1
    /\ passes # {} => (isProcessing /\ ProcessQueue(Cur, now) = Cur)

\* An upload is in flight, a second item is queued, and the addToQueue that
\* queued it is about to call processQueue.
C8_Witness ==
    /\ \E p \in passes : p.pc = "xhr"
    /\ addsPending > 0
    /\ Len(queue) = 2

(***************************************************************************)
(* C9.  FIFO within a pass.  sortedQueue is in ascending timestamp order,  *)
(* the events of a pass follow that order, and every request is ended      *)
(* before the next one is sent: no event of an item follows an event of an *)
(* item with a greater timestamp.  While the request of an item is in      *)
(* flight, its History entry is not yet completed (unless another item has *)
(* the same id), and the step that ends a request with success is the one *)
(* that sets the entry to completed, so an earlier item that succeeded in  *)
(* this pass had its entry set to completed strictly before.               *)
(***************************************************************************)
TimestampIn(p, u) ==
    LET i == CHOOSE i \in 1..Len(p.snap) : p.snap[i].uid = u
    IN  p.snap[i].timestamp

C9_OrderedEvents ==
    \A p \in passes :
        /\ \A i, j \in 1..Len(p.snap) :
              i < j => p.snap[i].timestamp <= p.snap[j].timestamp
        /\ \A k, m \in 1..Len(p.log) :
              k < m => TimestampIn(p, p.log[k].uid) <= TimestampIn(p, p.log[m].uid)
        /\ \A k \in 1..Len(p.log) :
              (p.log[k].ev = "send" /\ k < Len(p.log))
              => (p.log[k + 1].uid = p.log[k].uid /\ p.log[k + 1].ev \in {"ok", "fail"})
        /\ p.pc = "xhr" =>
              LET b == p.snap[p.idx]
              IN  /\ p.log[Len(p.log)] = [ev |-> "send", uid |-> b.uid]
                  /\ UniqueId(b.uid) => ~HistoryHas(b.id, {"completed"})

\* The step in which the request of an item ends with success is the step that
\* sets the item's History entry, when the log holds one, to completed.
C9_CompletedAtSuccess ==
    \A u \in Uids :
        (g[u].removedBy # "success" /\ g'[u].removedBy = "success")
        => /\ InFlight(u)
           /\ g[u].id \in IdsOf(history)
                 => \E i \in 1..Len(history') :
                       /\ history'[i].id = g[u].id
                       /\ history'[i].status = "completed"
                       /\ history'[i].progress = 100

C9_FifoWithinPass ==
    [] C9_OrderedEvents /\ [][C9_CompletedAtSuccess]_vars

\* The older item succeeded and is completed; the newer one is in flight.
C9_Witness ==
    \E p \in passes :
        /\ p.pc = "xhr"
        /\ Len(p.snap) = 2
        /\ p.snap[1].timestamp < p.snap[2].timestamp
        /\ p.log = << [ev |-> "send", uid |-> p.snap[1].uid],
                      [ev |-> "ok", uid |-> p.snap[1].uid],
                      [ev |-> "send", uid |-> p.snap[2].uid] >>
        /\ HistoryHas(p.snap[1].id, {"completed"})
        /\ HistoryHas(p.snap[2].id, {"uploading"})

(***************************************************************************)
(* C10.  No duplicate sends.  Within one process lifetime, an item whose   *)
(* upload resolved with success is out of the Queue Store (this.queue and  *)
(* the stored blob) and no upload request for it is in flight again.       *)
(***************************************************************************)
C10_NoSendAfterSuccess ==
    \A u \in Uids :
        g[u].removedBy = "success"
        => /\ ~InQueueStore(u)
           /\ ~InFlight(u)

\* One item succeeded, and a later pass is uploading the other one.
C10_Witness ==
    \E u \in Uids :
        /\ g[u].removedBy = "success"
        /\ \E p \in passes : p.pc = "xhr" /\ u \notin UidsOf(p.snap)
        /\ Len(queue) > 0

(***************************************************************************)
(* C11.  Queue Store invariant: every item of this.queue and of the stored *)
(* queue blob has status pending or uploading; none is completed or        *)
(* failed.                                                                 *)
(***************************************************************************)
TerminalStatuses == {"completed", "failed"}

C11_QueueStoreHoldsNoTerminalItem ==
    /\ \A i \in 1..Len(queue) : queue[i].status \notin TerminalStatuses
    /\ \A i \in 1..Len(pqueue.v) : pqueue.v[i].status \notin TerminalStatuses

(***************************************************************************)
(* C12.  History entries are insert-if-absent and durable: neither         *)
(* this.history nor the stored log holds two entries with one id, and no   *)
(* step of the processor, of a retry or of loadHistory takes an id out of  *)
(* the stored log, or out of this.history while the process lives.         *)
(* (clearHistory, the one operation the claim exempts, is not among the    *)
(* steps.)                                                                 *)
(***************************************************************************)
NoDuplicateIds(h) ==
    \A i, j \in 1..Len(h) : h[i].id = h[j].id => i = j

C12_NoDuplicateEntries == NoDuplicateIds(history) /\ NoDuplicateIds(phistory.v)

C12_EntriesStay ==
    /\ IdsOf(phistory.v) \subseteq IdsOf(phistory'.v)
    /\ crashes' = crashes => IdsOf(history) \subseteq IdsOf(history')

C12_HistoryEntriesDurable ==
    [] C12_NoDuplicateEntries /\ [][C12_EntriesStay]_vars

(***************************************************************************)
(* C13.  Enqueue.  The addToQueue call stores the new item with status     *)
(* pending before it waits, and it returns only after that write.  When it *)
(* returns, with no pass active and the queue not empty, a pass starts in  *)
(* that very step, whatever lastProcessTime was; with a pass active, none  *)
(* starts.  The pass it starts is left waiting for the health probe: the   *)
(* call returns without waiting for the probe or for any upload, and       *)
(* changes no item.                                                        *)
(***************************************************************************)
AddCalled == nextUid' = nextUid + 1

AddReturns == crashes' = crashes /\ addsPending' = addsPending - 1

C14_DistinctIds ==
    /\ \A u, v \in Uids :
          (u < nextUid /\ v < nextUid /\ u # v) => g[u].id # g[v].id
    /\ \A i, j \in 1..Len(queue) : queue[i].id = queue[j].id => i = j

(***************************************************************************)
(* C15.  Reconciliation ordering.  Whenever loadHistory's read resolves    *)
(* with a stored log, an entry that is pending or uploading and whose id   *)
(* is in the stored Queue Store is taken over unchanged, not rewritten to  *)
(* failed; and no upload request is in flight while a stored log still     *)
(* waits to be reconciled.                                                 *)
(***************************************************************************)
C15_NoTransferBeforeReconciliation ==
    (loadH.pending /\ loadH.value.has) => \A p \in passes : p.pc # "xhr"

C15_QueuedEntriesKept ==
    (loadH.pending /\ ~loadH'.pending /\ loadH.value.has)
    => \A i \in 1..Len(loadH.value.v) :
          LET e == loadH.value.v[i]
          IN  (e.status \in {"pending", "uploading"} /\ e.id \in IdsOf(pqueue.v))
              => (Len(history') >= i /\ history'[i] = e)

C15_ReconciliationOrdering ==
    [] C15_NoTransferBeforeReconciliation /\ [][C15_QueuedEntriesKept]_vars

(***************************************************************************)
(* C16.  Failed transient attempt.  In the step in which the upload        *)
(* request of an item ends with a transient error (anything but success    *)
(* and HTTP 403), the item's retryCount grows by exactly one; if the new   *)
(* count has reached PrecheckLimit (3) the item is removed from the Queue  *)
(* Store and its History entry is failed; otherwise the item stays queued  *)
(* with status pending, and the queue is stored so.  Stated for an item    *)
(* that is in this.queue and shares its id with no other item.             *)
(***************************************************************************)
IndexOfUid(q, u) ==
    IF \E i \in 1..Len(q) : q[i].uid = u
    THEN CHOOSE i \in 1..Len(q) : q[i].uid = u
    ELSE 0

TransientFailure(u) ==
    /\ InFlight(u) /\ ~InFlight(u)'
    /\ crashes' = crashes
    /\ g'[u].removedBy # "success"
    /\ ~ \E p \in passes' : p.pc = "rejected" /\ p.snap[p.idx].uid = u

C16_RetryCountedOnce(u) ==
    LET i == IndexOfUid(queue, u)
        j == IndexOfUid(queue', u)
    IN  IF queue[i].retryCount + 1 >= PrecheckLimit
        THEN j = 0 /\ IndexOfUid(pqueue'.v, u) = 0
        ELSE /\ j # 0
             /\ queue'[j].retryCount = queue[i].retryCount + 1
             /\ queue'[j].status = "pending"
             /\ pqueue' = Blob(queue')

C16_ExhaustionMarksHistory(u) ==
    queue[IndexOfUid(queue, u)].retryCount + 1 >= PrecheckLimit
    => \E k \in 1..Len(history') :
          history'[k].id = g[u].id /\ history'[k].status = "failed"

C16_FailedTransientAttempt ==
    [][\A u \in Uids :
          (TransientFailure(u) /\ UniqueId(u) /\ IndexOfUid(queue, u) # 0)
          => (C16_RetryCountedOnce(u) /\ C16_ExhaustionMarksHistory(u))]_vars

(***************************************************************************)
(* C17.  Gate failure stops the loop: the step in which a pass gives up at *)
(* a gate starts no pass and schedules no timer, so that the next pass and *)
(* the next health probe can only come from addToQueue or a NetInfo event. *)
(***************************************************************************)
C17_GateFailureStopsLoop ==
    [][C5_PassEndsAtGate
          => (~isProcessing' /\ passes' = {} /\ timers' = timers)]_vars

(***************************************************************************)
(* C18.  Continuous drain.  In a process that keeps running, whenever no   *)
(* pass is active and the queue is not empty (a pass has ended and left    *)
(* items, or items were added while it ran), a pass eventually starts,     *)
(* with no NetInfo event and no further addToQueue call needed: the        *)
(* finally block has started it or has set the timer that will.  The       *)
(* clock of the model ends at MaxTime, so a state whose retry timer would  *)
(* be due after MaxTime is not asked to go on.                             *)
(***************************************************************************)
BacklogWaiting == ~isProcessing /\ Len(queue) > 0

RetryBeyondClock == lastProcessTime + PROCESS_INTERVAL > MaxTime

C18_ContinuousDrain ==
    BacklogWaiting ~> (isProcessing \/ Len(queue) = 0 \/ RetryBeyondClock)

\* A pass has ended and left an item with one failed attempt, the timer set by
\* its finally block has run, and the pass it started is now at an item.
C18_Witness ==
    /\ nextUid = 2 /\ addsPending = 0
    /\ now > StartTime
    /\ lastProcessTime = now
    /\ timers = {}
    /\ Len(queue) = 1 /\ queue[1].retryCount = 1
    /\ \E p \in passes : p.pc = "xhr"

(***************************************************************************)
(* C19.  Rate limiting.  lastProcessTime is the start time of the latest   *)
(* pass unless addToQueue has reset it (or the process restarted): only a  *)
(* pass start, which sets it to the clock, addToQueue's return and a       *)
(* restart change it.  A pass that is not started by addToQueue starts at  *)
(* least PROCESS_INTERVAL after lastProcessTime.  While a backlog waits    *)
(* with no pass active and less than the interval elapsed, the deferred    *)
(* call is pending as a timer for lastProcessTime + PROCESS_INTERVAL; and  *)
(* a timer callback that finds a backlog, no pass and the interval elapsed *)
(* starts a pass.                                                          *)
(***************************************************************************)
PassStarts ==
    /\ crashes' = crashes
    /\ isProcessing'
    /\ (~isProcessing \/ lastProcessTime' # lastProcessTime)

TimerRuns == crashes' = crashes /\ \E f \in timers : f \notin timers'

C19_DeferredNotDropped ==
    (/\ BacklogWaiting
     /\ crashes = 0 /\ addsPending = 0
     /\ now - lastProcessTime < PROCESS_INTERVAL)
    => (lastProcessTime + PROCESS_INTERVAL \in timers \/ RetryBeyondClock)

C19_Steps ==
    /\ lastProcessTime' # lastProcessTime
          => \/ PassStarts /\ lastProcessTime' = now
             \/ AddReturns /\ lastProcessTime' = 0
             \/ crashes' # crashes
    /\ (PassStarts /\ ~AddReturns) => now - lastProcessTime >= PROCESS_INTERVAL
    /\ (TimerRuns /\ BacklogWaiting /\ now - lastProcessTime >= PROCESS_INTERVAL)
          => PassStarts

C19_RateLimiting == [] C19_DeferredNotDropped /\ [][C19_Steps]_vars

\* A deferred call: the pass that started at StartTime has ended leaving its
\* item for a retry, and the call made at its end is pending as a timer.
C19_Witness ==
    /\ crashes = 0
    /\ nextUid = 2 /\ addsPending = 0
    /\ BacklogWaiting
    /\ lastProcessTime = StartTime /\ now = StartTime
    /\ timers = {StartTime + PROCESS_INTERVAL}
    /\ queue[1].retryCount = 1

(***************************************************************************)
(* C20.  Configuration missing.  An item for which no upload request was   *)
(* ever sent can only have met the configuration check and the file check  *)
(* of uploadItem.  The claim: such an item is not failed or removed for    *)
(* missing configuration, so it is either removed because its file is      *)
(* gone, or still in this.queue and in the stored queue with status        *)
(* pending and retryCount 0.                                               *)
(***************************************************************************)
UntouchedIn(q, u) ==
    \A i \in 1..Len(q) :
        q[i].uid = u => (q[i].status = "pending" /\ q[i].retryCount = 0)

C20_MissingConfigurationFailsClosed ==
    \A u \in Uids :
        (Fresh(u) /\ UniqueId(u) /\ crashes = 0 /\ g[u].attempts = 0)
        => /\ g[u].removedBy \in {"none", "missing"}
           /\ UntouchedIn(queue, u)
           /\ UntouchedIn(pqueue.v, u)

(***************************************************************************)
(* C21.  Enqueue is fire-and-forget: no promise returned by addToQueue     *)
(* rejects, whatever the storage write, the probe, the connectivity check  *)
(* and the transfer do.                                                    *)
(***************************************************************************)
C21_AddToQueueNeverRejects == addsRejected = 0

(***************************************************************************)
(* C22.  At most one attempt per item per pass: within one pass no item is *)
(* sent twice, and an item whose request failed in the running pass is not *)
(* in flight again in that pass.                                           *)
(***************************************************************************)
SendsIn(p, u) == {i \in 1..Len(p.log) : p.log[i].ev = "send" /\ p.log[i].uid = u}

FailedIn(p, u) == \E i \in 1..Len(p.log) : p.log[i].ev = "fail" /\ p.log[i].uid = u

C22_OneAttemptPerPass ==
    \A p \in passes : \A u \in Uids :
        /\ Cardinality(SendsIn(p, u)) <= 1
        /\ (FailedIn(p, u) /\ p.pc \in {"item", "xhr"}) => p.snap[p.idx].uid # u

\* A pass in which the first item failed and stays queued for a retry, while
\* the request for the second item is in flight.
C22_Witness ==
    \E p \in passes :
        /\ p.pc = "xhr" /\ p.idx = 2
        /\ FailedIn(p, p.snap[1].uid)
        /\ p.snap[1].uid # p.snap[2].uid
        /\ \E i \in 1..Len(queue) :
              queue[i].uid = p.snap[1].uid /\ queue[i].retryCount = 1

(***************************************************************************)
(* C23.  No lost writes: when no pass is active, no addToQueue waits for   *)
(* its write and the two loads of the constructor are done, the stored     *)
(* queue is this.queue and the stored history is this.history (a key that  *)
(* was never written counts as the empty array).                           *)
(***************************************************************************)
StoredArray(blob) == IF blob.has THEN blob.v ELSE << >>

Quiescent ==
    /\ ~isProcessing /\ passes = {}
    /\ addsPending = 0
    /\ ~loadQ.pending /\ ~loadH.pending

C23_NoLostWrites ==
    Quiescent => (StoredArray(pqueue) = queue /\ StoredArray(phistory) = history)

(***************************************************************************)
(* C24.  Every started pass terminates.  As a safety property: while       *)
(* isProcessing is set, the pass that set it is waiting for something that *)
(* will call it back (the probe, NetInfo.fetch, a storage write, or a      *)
(* request whose end has a listener), so that it can still reach its       *)
(* finally block.                                                          *)
(***************************************************************************)
PassCanMove(p) == p.pc \in {"health", "netinfo", "item", "xhr", "rejected"}

C24_PassCanFinish == isProcessing => \E p \in passes : PassCanMove(p)

(***************************************************************************)
(* C25.  History mirrors the live state: when no request is in flight and  *)
(* no load handler is still at work, no entry of this.history has status   *)
(* uploading.                                                              *)
(***************************************************************************)
TransferAtWork == \E p \in passes : p.pc \in {"xhr", "rejected"}

C25_NoUploadingWithoutTransfer ==
    ~TransferAtWork
    => \A k \in 1..Len(history) : history[k].status # "uploading"

(***************************************************************************)
(* C26.  Restart resumes the backlog.  As a safety property: once the      *)
(* loadQueue of a restarted process has put the stored items into          *)
(* this.queue, and no addToQueue call is under way, the backlog has a pass *)
(* of its own: a pass is active or a processQueue call is scheduled.       *)
(***************************************************************************)
LoadedBacklog ==
    /\ crashes > 0
    /\ ~loadQ.pending
    /\ Len(queue) > 0
    /\ addsPending = 0

C26_LoadedBacklogHasPass == LoadedBacklog => (isProcessing \/ timers # {})

(***************************************************************************)
(* C27.  Enqueue during startup loses nothing: in a restarted process,     *)
(* once loadQueue is done and no addToQueue call is under way, every item  *)
(* that was in the store at the restart and every item enqueued since,     *)
(* unless the processor has removed it, is in this.queue and in the stored *)
(* queue.                                                                  *)
(***************************************************************************)
StoredAtRestart(u) == u \in UidsOf(loadQ.value.v)

C27_StartupEnqueueKeepsAll ==
    (crashes > 0 /\ ~loadQ.pending /\ addsPending = 0)
    => \A u \in Uids :
          (/\ u < nextUid
           /\ UniqueId(u)
           /\ g[u].removedBy = "none"
           /\ (Fresh(u) \/ StoredAtRestart(u)))
          => (u \in UidsOf(queue) /\ u \in UidsOf(pqueue.v))

(***************************************************************************)
(* C28.  After stopNetworkMonitoring has returned, a connectivity event    *)
(* starts no pass: a step that takes the engine from idle into a pass is   *)
(* then the return of addToQueue or a timer callback.                      *)
(***************************************************************************)
C28_StoppedMonitorStartsNoPass ==
    [][(~isMonitoring /\ ~isProcessing /\ isProcessing') => (AddReturns \/ TimerRuns)]_vars

(***************************************************************************)
(* C29.  updateSettings is all-or-nothing: a call that rejects leaves the  *)
(* settings that getSettings returns as they were before the call.         *)
(***************************************************************************)
UpdateRejects == updateCalls' = updateCalls + 1 /\ lastUpdate' = "rejected"

C29_RejectedUpdateChangesNothing == [][UpdateRejects => settings' = settings]_vars

(***************************************************************************)
(* C30.  Unviewed flag consistency: between calls, hasUnviewedMessages()   *)
(* is true exactly when some message of this.messages is not viewed.       *)
(***************************************************************************)
C30_UnviewedFlagConsistent == hasUnviewed <=> SomeUnviewed(messages)

====
